---- MODULE Spec2Model ----
(***************************************************************************)
(* Model of src/model/helpers.rs of notify-server: the project, subscriber *)
(* (with scope rows) and subscription-watcher operations on the backing    *)
(* relational store.  Tables are functions from their unique key to a row; *)
(* a key outside the DOMAIN has no row.  A transaction's writes are kept   *)
(* in the transaction until COMMIT applies them to the committed tables    *)
(* (READ COMMITTED: other sessions see committed rows only), and a written *)
(* subscriber row stays locked by its transaction until commit/rollback.   *)
(***************************************************************************)
EXTENDS Integers, Sequences, FiniteSets, TLC

(* ---------------------------- bounds ----------------------------------- *)
NumProjects == 2    \* external project ids 1..NumProjects
NumDomains  == 3    \* app_domain values 1..NumDomains
NumAccounts == 2    \* account ids 1..NumAccounts
NumScopes   == 2    \* scope uuids 1..NumScopes
NumKeys     == 2    \* key material 1..NumKeys
NumDidKeys  == 2    \* watcher did_key values 1..NumDidKeys
NumTxns     == 2    \* concurrent subscriber transactions (sessions)
MaxTime     == 1    \* the clock runs 0..MaxTime
MaxIds      == 2    \* subscriber ids the store generates: 1..MaxIds
NumJunk     == 2    \* scope strings that are no uuid: 1..NumJunk
MaxLen      == 3    \* longest array_agg result decoded

(* chrono::Duration::days(30), in clock units *)
ExpiryDays == 30

ProjectIds == 1..NumProjects
Domains    == 1..NumDomains
Accounts   == 1..NumAccounts
ScopeUuids == 1..NumScopes
Keys       == 1..NumKeys
DidKeys    == 1..NumDidKeys
Txns       == 1..NumTxns

VARIABLES
    now,                    \* the store's clock: now() and Utc::now()
    project,                \* table project, keyed by project_id (unique)
    subscriber,             \* table subscriber, keyed by <<project, account>> (unique)
    subscriber_scope,       \* table subscriber_scope: rows [subscriber, name]
    subscription_watcher,   \* table subscription_watcher, keyed by did_key (unique)
    txn,                    \* per session: the open transaction of upsert/update_subscriber
    nextId,                 \* next subscriber id the store generates
    last,                   \* the call that began or completed last, with its result
    lastScope,              \* history: scope set of the last committed upsert/update per key
    firstCall               \* history: arguments of the first successful upsert_project per id

vars == <<now, project, subscriber, subscriber_scope, subscription_watcher,
          txn, nextId, last, lastScope, firstCall>>

(* ---------------------------- helpers ---------------------------------- *)
\* f with key k set to row v (insert or overwrite)
Put(f, k, v) == [x \in (DOMAIN f) \cup {k} |-> IF x = k THEN v ELSE f[x]]

\* f without the keys in ks
Drop(f, ks) == [x \in (DOMAIN f) \ ks |-> f[x]]

\* SQL NULL of a nullable column
NULL == <<>>

\* result record of a completed operation
Done(op, t, arg, res, val) == [op |-> op, t |-> t, arg |-> arg, res |-> res, val |-> val]

(* ---------------------------- opaque values ---------------------------- *)
\* crate::auth encodings of the two key pairs: four deterministic strings
encode_authentication_public_key(k)  == <<"authentication_public_key", k>>
encode_authentication_private_key(k) == <<"authentication_private_key", k>>
encode_subscribe_public_key(k)       == <<"subscribe_public_key", k>>
encode_subscribe_private_key(k)      == <<"subscribe_private_key", k>>

\* the topic a caller derives from key material (sha256 of the key)
TopicOf(k) == <<"topic", k>>

\* hex::encode(notify_key)
HexEncode(k) == <<"hex", k>>

\* project.id, the uuid the store generates for a project row
ProjectUuid(pid) == <<"project", pid>>

(* ---------------------------- clock ------------------------------------ *)
Tick ==
    /\ now < MaxTime
    /\ now' = now + 1
    /\ last' = Done("tick", 0, NULL, "ok", NULL)
    /\ UNCHANGED <<project, subscriber, subscriber_scope, subscription_watcher,
                   txn, nextId, lastScope, firstCall>>

(* ---------------------------- ProjectStore ----------------------------- *)
\* unique(app_domain): another project row already holds app_domain
AppDomainTaken(project_id, app_domain) ==
    \E p \in DOMAIN project : p # project_id /\ project[p].app_domain = app_domain

\* the row INSERT INTO project ... VALUES ($1..$7) writes
NewProjectRow(project_id, app_domain, topic, apub, apriv, spub, spriv) ==
    [id |-> ProjectUuid(project_id),
     app_domain |-> app_domain,
     topic |-> topic,
     authentication_public_key |-> apub,
     authentication_private_key |-> apriv,
     subscribe_public_key |-> spub,
     subscribe_private_key |-> spriv]

\* faulty variant: the conflict branch overwrites every column of the row
ConflictProjectRow_overwrite(old, app_domain, topic, apub, apriv, spub, spriv) ==
    [old EXCEPT !.app_domain = app_domain, !.topic = topic,
                !.authentication_public_key = apub,
                !.authentication_private_key = apriv,
                !.subscribe_public_key = spub,
                !.subscribe_private_key = spriv]

\* ON CONFLICT (project_id) DO UPDATE SET updated_at=now(), app_domain=$2
ConflictProjectRow(old, app_domain, topic, apub, apriv, spub, spriv) ==
    [old EXCEPT !.app_domain = app_domain]

\* faulty variant: the statement's error is dropped and the call returns Ok
upsert_project_impl_swallow(project_id, app_domain, topic, apub, apriv, spub, spriv) ==
    IF AppDomainTaken(project_id, app_domain)
    THEN /\ last' = Done("upsert_project", 0, <<project_id, app_domain, apub, spub>>,
                         "ok", NULL)
         /\ UNCHANGED <<project, firstCall>>
    ELSE LET row == IF project_id \in DOMAIN project
                    THEN ConflictProjectRow(project[project_id], app_domain, topic,
                                            apub, apriv, spub, spriv)
                    ELSE NewProjectRow(project_id, app_domain, topic,
                                       apub, apriv, spub, spriv)
         IN /\ project' = Put(project, project_id, row)
            /\ firstCall' = IF project_id \in DOMAIN project THEN firstCall
                            ELSE Put(firstCall, project_id,
                                     [topic |-> topic, apub |-> apub, apriv |-> apriv,
                                      spub |-> spub, spriv |-> spriv])
            /\ last' = Done("upsert_project", 0, <<project_id, app_domain, apub, spub>>, "ok",
                            <<row.authentication_public_key, row.subscribe_public_key>>)

upsert_project_impl(project_id, app_domain, topic, apub, apriv, spub, spriv) ==
    IF AppDomainTaken(project_id, app_domain)
    THEN /\ last' = Done("upsert_project", 0, <<project_id, app_domain, apub, spub>>,
                         "UniqueViolation", NULL)
         /\ UNCHANGED <<project, firstCall>>
    ELSE LET row == IF project_id \in DOMAIN project
                    THEN ConflictProjectRow(project[project_id], app_domain, topic,
                                            apub, apriv, spub, spriv)
                    ELSE NewProjectRow(project_id, app_domain, topic,
                                       apub, apriv, spub, spriv)
         IN /\ project' = Put(project, project_id, row)
            /\ firstCall' = IF project_id \in DOMAIN project THEN firstCall
                            ELSE Put(firstCall, project_id,
                                     [topic |-> topic, apub |-> apub, apriv |-> apriv,
                                      spub |-> spub, spriv |-> spriv])
            \* RETURNING authentication_public_key, subscribe_public_key
            /\ last' = Done("upsert_project", 0, <<project_id, app_domain, apub, spub>>, "ok",
                            <<row.authentication_public_key, row.subscribe_public_key>>)

upsert_project(project_id, app_domain, topic, authentication_key, subscribe_key) ==
    /\ upsert_project_impl(project_id, app_domain, topic,
                           encode_authentication_public_key(authentication_key),
                           encode_authentication_private_key(authentication_key),
                           encode_subscribe_public_key(subscribe_key),
                           encode_subscribe_private_key(subscribe_key))
    /\ UNCHANGED <<now, subscriber, subscriber_scope, subscription_watcher,
                   txn, nextId, lastScope>>

(* ---------------------------- scope encoding --------------------------- *)
\* a Uuid bound as text: the name column of subscriber_scope
UuidToString(u) == <<"uuid", u>>

\* the same uuid written without hyphens, a form Uuid::parse_str reads as well
UuidToSimpleString(u) == <<"simple", u>>

\* a string that is no uuid in any form
Malformed(n) == <<"malformed", n>>

\* Uuid::parse_str(s).ok(): the set holding the uuid, empty when s is no uuid
ParseUuid(s) == {u \in ScopeUuids : s \in {UuidToString(u), UuidToSimpleString(u)}}

\* array_agg(name): the rows' names in any order the store produces
ArrayAgg(names) ==
    {q \in [1..Cardinality(names) -> names] : {q[i] : i \in DOMAIN q} = names}

\* faulty variant: the decoding stops at the first entry that is no uuid
parse_scopes_until_invalid(scopes) ==
    UNION {ParseUuid(scopes[i]) :
              i \in {j \in DOMAIN scopes :
                        \A b \in DOMAIN scopes : ParseUuid(scopes[b]) = {} => j < b}}

\* filter_map(|s| Uuid::parse_str(s).ok()).collect::<HashSet<_>>()
parse_scopes_and_ignore_invalid(scopes) ==
    UNION {ParseUuid(scopes[i]) : i \in DOMAIN scopes}

(* ---------------------------- transactions ----------------------------- *)
\* no open transaction (raced is history: another call on the same key, begun
\* at another time, has committed since this one began)
IdleTxn ==
    [pc |-> "idle", op |-> "none", key |-> NULL, expiry |-> 0, sym_key |-> NULL,
     topic |-> NULL, scope |-> {}, id |-> 0, row |-> NULL, del |-> {}, ins |-> {},
     raced |-> FALSE]

\* t has written (and so locked) the subscriber row of key
HoldsRow(t, key) == txn[t].pc \in {"row", "del", "ins"} /\ txn[t].key = key

\* the row of key is locked by a transaction other than t
LockedByOther(t, key) == \E u \in Txns \ {t} : HoldsRow(u, key)

\* the row with this id is locked by some transaction
IdLocked(id) ==
    \E u \in Txns : txn[u].pc \in {"row", "del", "ins"} /\ txn[u].id = id

\* Utc::now() + chrono::Duration::days(30)
NewExpiry == now + ExpiryDays

\* committed scope rows of a subscriber id
ScopeRowsOf(id) == {r \in subscriber_scope : r.subscriber = id}

(* ---------------------------- SubscriberStore -------------------------- *)
\* postgres.begin() and the binding of the row statement's arguments, the expiry
\* Utc::now() + 30 days among them; the scope set is bound by the scope INSERT
begin_upsert_subscriber(t, proj, account, notify_key, notify_topic) ==
    /\ txn[t].pc = "idle"
    /\ txn' = [txn EXCEPT ![t] =
                 [IdleTxn EXCEPT !.pc = "begun", !.op = "upsert_subscriber",
                                 !.key = <<proj, account>>,
                                 !.sym_key = HexEncode(notify_key),
                                 !.topic = notify_topic,
                                 !.expiry = NewExpiry]]
    /\ last' = Done("begin", t, <<proj, account>>, "ok", NULL)
    /\ UNCHANGED <<now, project, subscriber, subscriber_scope, subscription_watcher,
                   nextId, lastScope, firstCall>>

\* postgres.begin() and the binding of update_subscriber's row statement arguments
begin_update_subscriber(t, proj, account) ==
    /\ txn[t].pc = "idle"
    /\ txn' = [txn EXCEPT ![t] =
                 [IdleTxn EXCEPT !.pc = "begun", !.op = "update_subscriber",
                                 !.key = <<proj, account>>,
                                 !.expiry = NewExpiry]]
    /\ last' = Done("begin", t, <<proj, account>>, "ok", NULL)
    /\ UNCHANGED <<now, project, subscriber, subscriber_scope, subscription_watcher,
                   nextId, lastScope, firstCall>>

\* INSERT INTO subscriber ... : the row written when (project, account) is new
InsertedSubscriberRow(t, id) ==
    [id |-> id, sym_key |-> txn[t].sym_key, topic |-> txn[t].topic,
     expiry |-> txn[t].expiry]

\* faulty variant: the conflicting row is replaced by a newly inserted one
ConflictSubscriberRow_reinsert(t, old) ==
    [id |-> nextId, sym_key |-> txn[t].sym_key, topic |-> txn[t].topic,
     expiry |-> txn[t].expiry]

\* ON CONFLICT (project, account) DO UPDATE SET sym_key=$3, topic=$4, expiry=$5
ConflictSubscriberRow(t, old) ==
    [old EXCEPT !.sym_key = txn[t].sym_key, !.topic = txn[t].topic,
                !.expiry = txn[t].expiry]

\* faulty variant: the update also writes the key and topic columns
UpdatedSubscriberRow_rekey(t, old) ==
    [old EXCEPT !.expiry = txn[t].expiry, !.sym_key = txn[t].sym_key,
                !.topic = txn[t].topic]

\* faulty variant: the update leaves the expiry as it is
UpdatedSubscriberRow_norenew(t, old) == old

\* UPDATE subscriber SET updated_at=now(), expiry=$1
UpdatedSubscriberRow(t, old) == [old EXCEPT !.expiry = txn[t].expiry]

\* faulty variant: the row statement run on the pool, committed at once
SeenAfterRowWrite_autocommit(key, row) == Put(subscriber, key, row)

\* .fetch_one(&mut *txn): the subscriber table other sessions read once the row
\* statement has run inside the open transaction (nothing of it before COMMIT)
SeenAfterRowWrite(key, row) == subscriber

\* faulty variant: the DELETE run on the pool, committed at once
SeenAfterScopeDelete_autocommit(rows) == subscriber_scope \ rows

\* .execute(&mut **txn): the subscriber_scope table other sessions read once the
\* DELETE has run inside the open transaction (nothing of it before COMMIT)
SeenAfterScopeDelete(rows) == subscriber_scope

\* upsert_subscriber's INSERT ... ON CONFLICT ... RETURNING id, inside the transaction
exec_upsert_row(t) ==
    /\ txn[t].pc = "begun" /\ txn[t].op = "upsert_subscriber"
    /\ ~LockedByOther(t, txn[t].key)
    /\ IF txn[t].key \in DOMAIN subscriber
       THEN /\ txn' = [txn EXCEPT ![t].pc = "row",
                                  ![t].id = subscriber[txn[t].key].id,
                                  ![t].row = ConflictSubscriberRow(t, subscriber[txn[t].key])]
            /\ UNCHANGED nextId
       ELSE /\ nextId <= MaxIds
            /\ txn' = [txn EXCEPT ![t].pc = "row", ![t].id = nextId,
                                  ![t].row = InsertedSubscriberRow(t, nextId)]
            /\ nextId' = nextId + 1
    /\ subscriber' = SeenAfterRowWrite(txn[t].key, txn'[t].row)
    /\ UNCHANGED <<now, project, subscriber_scope, subscription_watcher,
                   last, lastScope, firstCall>>

\* faulty variant: fetch_optional, no row is not an error
exec_update_row_optional(t) ==
    /\ txn[t].pc = "begun" /\ txn[t].op = "update_subscriber"
    /\ txn[t].key \notin DOMAIN subscriber
    /\ txn' = [txn EXCEPT ![t] = IdleTxn]
    /\ last' = Done("update_subscriber", t, txn[t].key, "ok", NULL)
    /\ UNCHANGED <<now, project, subscriber, subscriber_scope, subscription_watcher,
                   nextId, lastScope, firstCall>>

\* update_subscriber's UPDATE ... WHERE project=$2 AND account=$3 RETURNING *
\* (fetch_one: no row is the error RowNotFound, and the transaction is dropped)
exec_update_row(t) ==
    /\ txn[t].pc = "begun" /\ txn[t].op = "update_subscriber"
    /\ IF txn[t].key \in DOMAIN subscriber
       THEN /\ ~LockedByOther(t, txn[t].key)
            /\ txn' = [txn EXCEPT ![t].pc = "row",
                                  ![t].id = subscriber[txn[t].key].id,
                                  ![t].row = UpdatedSubscriberRow(t, subscriber[txn[t].key])]
            /\ subscriber' = SeenAfterRowWrite(txn[t].key, txn'[t].row)
            /\ UNCHANGED last
       ELSE /\ txn' = [txn EXCEPT ![t] = IdleTxn]
            /\ last' = Done("update_subscriber", t, txn[t].key, "RowNotFound", NULL)
            /\ UNCHANGED subscriber
    /\ UNCHANGED <<now, project, subscriber_scope, subscription_watcher,
                   nextId, lastScope, firstCall>>

\* faulty variant: the DELETE left out, old rows stay
ScopeRowsToDelete_skipped(id) == {}

\* the rows DELETE FROM subscriber_scope WHERE subscriber=$1 removes
ScopeRowsToDelete(id) == ScopeRowsOf(id)

\* faulty variant: the rows are inserted under another subscriber id
ScopeRowsToInsert_wrongid(id, scope) ==
    {[subscriber |-> id + 1, name |-> UuidToString(u)] : u \in scope}

\* the rows INSERT INTO subscriber_scope ... SELECT $1, name FROM UNNEST($2) adds
ScopeRowsToInsert(id, scope) ==
    {[subscriber |-> id, name |-> UuidToString(u)] : u \in scope}

\* update_subscriber_scope, first statement
scope_delete(t) ==
    /\ txn[t].pc = "row"
    /\ txn' = [txn EXCEPT ![t].pc = "del", ![t].del = ScopeRowsToDelete(txn[t].id)]
    /\ subscriber_scope' = SeenAfterScopeDelete(ScopeRowsToDelete(txn[t].id))
    /\ UNCHANGED <<now, project, subscriber, subscription_watcher,
                   nextId, last, lastScope, firstCall>>

\* update_subscriber_scope, second statement, binding the caller's scope set
scope_insert(t, scope) ==
    /\ txn[t].pc = "del"
    /\ txn' = [txn EXCEPT ![t].pc = "ins", ![t].scope = scope,
                          ![t].ins = ScopeRowsToInsert(txn[t].id, scope)]
    /\ UNCHANGED <<now, project, subscriber, subscriber_scope, subscription_watcher,
                   nextId, last, lastScope, firstCall>>

\* faulty variant: the commit adds the new scope rows to the ones stored
CommittedScope_union(t) == subscriber_scope \cup txn[t].ins

\* the committed tables once the transaction's writes are applied
CommittedSubscriber(t) == Put(subscriber, txn[t].key, txn[t].row)
CommittedScope(t) == (subscriber_scope \ txn[t].del) \cup txn[t].ins

\* txn.commit(): the writes become visible together; Ok(id) / Ok(subscriber)
commit(t) ==
    /\ txn[t].pc = "ins"
    /\ subscriber' = CommittedSubscriber(t)
    /\ subscriber_scope' = CommittedScope(t)
    /\ lastScope' = Put(lastScope, txn[t].key, txn[t].scope)
    /\ last' = Done(txn[t].op, t, txn[t].key, "ok", txn[t].id)
    /\ txn' = [u \in Txns |->
                 IF u = t THEN IdleTxn
                 ELSE IF /\ txn[u].pc # "idle" /\ txn[u].key = txn[t].key
                         /\ txn[u].expiry # txn[t].expiry
                      THEN [txn[u] EXCEPT !.raced = TRUE]
                      ELSE txn[u]]
    /\ UNCHANGED <<now, project, subscription_watcher, nextId, firstCall>>

\* a statement or the commit fails: `?` returns the error and the dropped
\* transaction is rolled back, its writes discarded
rollback(t) ==
    /\ txn[t].pc \in {"begun", "row", "del", "ins"}
    /\ txn' = [txn EXCEPT ![t] = IdleTxn]
    /\ last' = Done(txn[t].op, t, txn[t].key, "error", txn[t].pc)
    /\ UNCHANGED <<now, project, subscriber, subscriber_scope, subscription_watcher,
                   nextId, lastScope, firstCall>>

\* ON DELETE CASCADE of subscriber_scope.subscriber: the scope rows that go
\* with the deleted subscriber rows
CascadeScope(ids) == {r \in subscriber_scope : r.subscriber \in ids}

\* the keys DELETE FROM subscriber WHERE id=$1 removes
SubscriberKeysById(id) == {k \in DOMAIN subscriber : subscriber[k].id = id}

\* faulty variant: a strict delete, an error when no row matched
DeleteResult_strict(matched) == IF matched = 0 THEN "RowNotFound" ELSE "ok"

\* .execute(postgres).await?; Ok(()): the number of rows affected is dropped
DeleteResult(matched) == "ok"

\* delete_subscriber: one statement; Ok(()) whether or not a row matched
delete_subscriber(id) ==
    /\ ~IdLocked(id)
    /\ subscriber' = Drop(subscriber, SubscriberKeysById(id))
    /\ subscriber_scope' = subscriber_scope \ CascadeScope({id})
    /\ lastScope' = Drop(lastScope, SubscriberKeysById(id))
    /\ last' = Done("delete_subscriber", 0, id,
                    DeleteResult(Cardinality(SubscriberKeysById(id))),
                    Cardinality(SubscriberKeysById(id)))
    /\ UNCHANGED <<now, project, subscription_watcher, txn, nextId, firstCall>>

(* ---------------------------- QueryLayer ------------------------------- *)
\* one row of SELECT ..., array_agg(subscriber_scope.name) as scope ... GROUP BY,
\* converted by From<SubscriberWithScopeResult> for SubscriberWithScope
SubscriberWithScope(key, scope) ==
    [id |-> subscriber[key].id, project |-> key[1], account |-> key[2],
     sym_key |-> subscriber[key].sym_key, topic |-> subscriber[key].topic,
     scope |-> parse_scopes_and_ignore_invalid(scope),
     expiry |-> subscriber[key].expiry]

\* the groups of FROM subscriber JOIN subscriber_scope ON subscriber=subscriber.id:
\* an inner join, so a subscriber without scope rows yields no group
JoinedWithScope(keys) ==
    UNION {{SubscriberWithScope(k, q) :
                q \in ArrayAgg({r.name : r \in ScopeRowsOf(subscriber[k].id)})} :
           k \in {x \in keys : ScopeRowsOf(subscriber[x].id) # {}}}

\* get_subscriber_by_topic: the rows fetch_one may return; none is RowNotFound
get_subscriber_by_topic(topic) ==
    JoinedWithScope({k \in DOMAIN subscriber : subscriber[k].topic = topic})

\* FROM subscriber JOIN project ON project.id=subscriber.project
\* WHERE project.project_id=$1: the keys of the subscribers selected
SubscriberKeysOfProject(project_id) ==
    {k \in DOMAIN subscriber :
        \E p \in DOMAIN project : p = project_id /\ project[p].id = k[1]}

\* get_subscriber_accounts_by_project_id: SELECT account, one per subscriber
get_subscriber_accounts_by_project_id(project_id) ==
    {k[2] : k \in SubscriberKeysOfProject(project_id)}

\* one group of SELECT account, array_agg(subscriber_scope.name) ... GROUP BY
\* account, mapped to SubscriberAccountAndScopes
SubscriberAccountAndScopes(key, scope) ==
    [account |-> key[2], scope |-> parse_scopes_and_ignore_invalid(scope)]

\* get_subscriber_accounts_and_scopes_by_project_id: the groups of the inner join
\* with subscriber_scope, so a subscriber without scope rows yields no group
get_subscriber_accounts_and_scopes_by_project_id(project_id) ==
    UNION {{SubscriberAccountAndScopes(k, q) :
                q \in ArrayAgg({r.name : r \in ScopeRowsOf(subscriber[k].id)})} :
           k \in {x \in SubscriberKeysOfProject(project_id) :
                     ScopeRowsOf(subscriber[x].id) # {}}}

(* ---------------------------- specifications --------------------------- *)
\* the store after its schema is created: every table empty
InitEmpty ==
    /\ now = 0
    /\ project = <<>>
    /\ subscriber = <<>>
    /\ subscriber_scope = {}
    /\ subscription_watcher = <<>>
    /\ txn = [t \in Txns |-> IdleTxn]
    /\ nextId = 1
    /\ last = Done("init", 0, NULL, "ok", NULL)
    /\ lastScope = <<>>
    /\ firstCall = <<>>

\* the store after upsert_project(p, p, TopicOf(1), 1, 1) for each p in ps
InitRegistered(ps) ==
    /\ now = 0
    /\ project = [p \in ps |->
                    NewProjectRow(p, p, TopicOf(1),
                                  encode_authentication_public_key(1),
                                  encode_authentication_private_key(1),
                                  encode_subscribe_public_key(1),
                                  encode_subscribe_private_key(1))]
    /\ firstCall = [p \in ps |->
                      [topic |-> TopicOf(1),
                       apub |-> encode_authentication_public_key(1),
                       apriv |-> encode_authentication_private_key(1),
                       spub |-> encode_subscribe_public_key(1),
                       spriv |-> encode_subscribe_private_key(1)]]
    /\ subscriber = <<>>
    /\ subscriber_scope = {}
    /\ subscription_watcher = <<>>
    /\ txn = [t \in Txns |-> IdleTxn]
    /\ nextId = 1
    /\ last = Done("init", 0, NULL, "ok", NULL)
    /\ lastScope = <<>>

\* the registered projects' ids: what a caller passes as subscriber.project
ProjectUuids == {project[p].id : p \in DOMAIN project}

\* the subscriber operations of the sessions ts, on the accounts as, with the
\* notify keys ks
SubscriberNext(ts, as, ks) ==
    \/ \E t \in ts, proj \in ProjectUuids, a \in as, k \in ks :
            begin_upsert_subscriber(t, proj, a, k, TopicOf(k))
    \/ \E t \in ts, proj \in ProjectUuids, a \in as :
            begin_update_subscriber(t, proj, a)
    \/ \E t \in ts : exec_upsert_row(t)
    \/ \E t \in ts : exec_update_row(t)
    \/ \E t \in ts : scope_delete(t)
    \/ \E t \in ts, scope \in SUBSET ScopeUuids : scope_insert(t, scope)
    \/ \E t \in ts : commit(t)
    \/ \E t \in ts : rollback(t)
    \/ \E id \in 1..MaxIds : delete_subscriber(id)

\* projects registered and registered again, each call with a pair of keys
\* generated for it and the topic derived from them
ProjectNext ==
    \E p \in ProjectIds, d \in Domains, k \in Keys :
        upsert_project(p, d, TopicOf(k), k, k)

SpecProject == InitEmpty /\ [][ProjectNext]_vars

\* one session working on the subscribers of every account of project 1
SpecSubscriber == InitRegistered({1}) /\ [][SubscriberNext({1}, Accounts, {1})]_vars

\* every session working on the subscriber of account 1
SpecConcurrent == InitRegistered({1}) /\ [][SubscriberNext(Txns, {1}, {1})]_vars

\* one session renewing and re-keying the subscriber of account 1 as time passes
RenewalNext == Tick \/ SubscriberNext({1}, {1}, Keys)

SpecRenewal == InitRegistered({1}) /\ [][RenewalNext]_vars

(* ---------------------------- WatcherStore ----------------------------- *)
\* subscription_watcher.project REFERENCES project(id): a non-null project
\* without a project row is rejected
WatcherProjectMissing(proj) == proj # NULL /\ proj \notin ProjectUuids

\* faulty variant: the project column is left out of the statement
WatcherRow_noproject(account, proj, sym_key, expiry) ==
    [account |-> account, project |-> NULL, sym_key |-> sym_key, expiry |-> expiry]

\* INSERT ... VALUES ($1..$5) ON CONFLICT (did_key) DO UPDATE SET
\* account=$1, project=$2, sym_key=$4, expiry=$5: the row stored either way
WatcherRow(account, proj, sym_key, expiry) ==
    [account |-> account, project |-> proj, sym_key |-> sym_key, expiry |-> expiry]

upsert_subscription_watcher(account, proj, did_key, sym_key, expiry) ==
    /\ IF WatcherProjectMissing(proj)
       THEN /\ last' = Done("upsert_subscription_watcher", 0, did_key,
                            "ForeignKeyViolation", expiry)
            /\ UNCHANGED subscription_watcher
       ELSE /\ subscription_watcher' =
                 Put(subscription_watcher, did_key,
                     WatcherRow(account, proj, sym_key, expiry))
            /\ last' = Done("upsert_subscription_watcher", 0, did_key, "ok", expiry)
    /\ UNCHANGED <<now, project, subscriber, subscriber_scope, txn, nextId,
                   lastScope, firstCall>>

\* faulty variant: the join matches any project row, not the watcher's
JoinedAppDomains_cross(did_key) ==
    IF DOMAIN project = {} THEN {NULL} ELSE {<<project[p].app_domain>> : p \in DOMAIN project}

\* FROM subscription_watcher LEFT JOIN project ON project.id=subscription_watcher.project:
\* the app_domain column joined to a watcher row: <<value>>, or NULL when no
\* project row matches
JoinedAppDomains(did_key) ==
    LET ps == {p \in DOMAIN project : project[p].id = subscription_watcher[did_key].project}
    IN IF ps = {} THEN {NULL} ELSE {<<project[p].app_domain>> : p \in ps}

\* faulty variant: expiry >= now(), a watcher expiring now still visible
WatcherVisible_nonstrict(did_key, joined_app_domain, account, app_domain) ==
    /\ subscription_watcher[did_key].expiry >= now
    /\ subscription_watcher[did_key].account = account
    /\ \/ subscription_watcher[did_key].project = NULL
       \/ (joined_app_domain # NULL /\ joined_app_domain[1] = app_domain)

\* WHERE expiry > now() AND account=$1 AND (project IS NULL OR project.app_domain=$2)
WatcherVisible(did_key, joined_app_domain, account, app_domain) ==
    /\ subscription_watcher[did_key].expiry > now
    /\ subscription_watcher[did_key].account = account
    /\ \/ subscription_watcher[did_key].project = NULL
       \/ (joined_app_domain # NULL /\ joined_app_domain[1] = app_domain)

\* SELECT project, did_key, sym_key
SubscriptionWatcherQuery(did_key) ==
    [project |-> subscription_watcher[did_key].project, did_key |-> did_key,
     sym_key |-> subscription_watcher[did_key].sym_key]

get_subscription_watchers_for_account_by_app_or_all_app(account, app_domain) ==
    {SubscriptionWatcherQuery(d) :
        d \in {x \in DOMAIN subscription_watcher :
                 \E j \in JoinedAppDomains(x) : WatcherVisible(x, j, account, app_domain)}}

\* faulty variant: expiry < now(), a watcher expiring now survives the sweep
ExpiredWatchers_strict ==
    {d \in DOMAIN subscription_watcher : subscription_watcher[d].expiry < now}

\* faulty variant: the sweep deletes one expired row per call
ExpiredWatchers_one ==
    LET expired == {d \in DOMAIN subscription_watcher :
                       subscription_watcher[d].expiry <= now}
    IN IF expired = {} THEN {} ELSE {CHOOSE d \in expired : TRUE}

\* DELETE FROM subscription_watcher WHERE expiry <= now() RETURNING *
ExpiredWatchers == {d \in DOMAIN subscription_watcher : subscription_watcher[d].expiry <= now}

\* SELECT count(*) FROM deleted
delete_expired_subscription_watchers ==
    /\ subscription_watcher' = Drop(subscription_watcher, ExpiredWatchers)
    /\ last' = Done("delete_expired_subscription_watchers", 0, NULL, "ok",
                    Cardinality(ExpiredWatchers))
    /\ UNCHANGED <<now, project, subscriber, subscriber_scope, txn, nextId,
                   lastScope, firstCall>>

\* watchers of every account upserted, global or on a project that is not
\* registered, expiring as the clock runs, swept
WatcherNext ==
    \/ Tick
    \/ \E a \in Accounts, d \in DidKeys, e \in 1..(MaxTime + 1),
          proj \in {NULL, ProjectUuid(1)} :
            upsert_subscription_watcher(a, proj, d, HexEncode(1), e)
    \/ delete_expired_subscription_watchers

SpecWatcher == InitEmpty /\ [][WatcherNext]_vars

\* the projects registered, each with an app_domain of its own
RegisteredIds == ProjectIds \cap Domains

\* watchers of every account, global or on a registered project, upserted with
\* an expiry passed or to come
WatcherQueryNext ==
    \E a \in Accounts, d \in DidKeys, e \in {now, now + 1},
       proj \in {NULL} \cup {ProjectUuid(p) : p \in RegisteredIds} :
          upsert_subscription_watcher(a, proj, d, HexEncode(1), e)

SpecWatcherQuery == InitRegistered(RegisteredIds) /\ [][WatcherQueryNext]_vars

(* ======================= properties of the stores ====================== *)
\* the scope set a reader decodes from the committed scope rows of key's subscriber
ReaderScopes(key) ==
    {parse_scopes_and_ignore_invalid(q) :
        q \in ArrayAgg({r.name : r \in ScopeRowsOf(subscriber[key].id)})}

\* session t ends its transaction in this step
Ended(t) == txn[t].pc # "idle" /\ txn'[t].pc = "idle"

\* C1: in every committed state the scope rows of each existing subscriber are
\* exactly the scope set of the most recent committed upsert_subscriber or
\* update_subscriber for its (project, account): no superset, subset or mix.
C1_ScopeRowsAreLastCommittedSet ==
    \A k \in DOMAIN subscriber :
        /\ k \in DOMAIN lastScope
        /\ {r.name : r \in ScopeRowsOf(subscriber[k].id)}
             = {UuidToString(u) : u \in lastScope[k]}

\* C1 witness: an update has replaced the scope of one of two subscribers whose
\* sets differ, by a set that is neither empty nor everything
C1_Witness ==
    /\ last.op = "update_subscriber" /\ last.res = "ok"
    /\ lastScope[last.arg] \notin {{}, ScopeUuids}
    /\ \E k \in DOMAIN subscriber : k # last.arg /\ lastScope[k] # lastScope[last.arg]

\* what get_subscriber_by_topic, called with the topic of key's subscriber, reads
\* as that subscriber's scope: no result when it has no scope rows
ScopesByTopic(key) ==
    {r.scope : r \in {x \in get_subscriber_by_topic(subscriber[key].topic) :
                         x.id = subscriber[key].id}}

\* C2: a reader calling get_subscriber_by_topic concurrently with the sessions'
\* transactions, on an existing subscriber with a non-empty scope set, sees that
\* set change only in the step that commits a transaction on the subscriber,
\* and then to exactly the (non-empty) set of that transaction: never the empty
\* set left by the DELETE, a partly inserted set or the union of old and new.
C2_ReaderSeesOldOrNewScope ==
    [][\A k \in (DOMAIN subscriber) \cap (DOMAIN subscriber') :
          ScopesByTopic(k) # {}
             => \/ ScopesByTopic(k)' = ScopesByTopic(k)
                \/ \E t \in Txns :
                      /\ txn[t].pc = "ins" /\ txn[t].key = k /\ Ended(t)
                      /\ last'.res = "ok"
                      /\ txn[t].scope # {} => ScopesByTopic(k)' = {txn[t].scope}]_vars

\* C2 witness: an update_subscriber has run its DELETE on a subscriber with scope
\* rows and not yet its INSERT, and the reader still gets the old set
C2_Witness ==
    \E t \in Txns :
        /\ txn[t].pc = "del" /\ txn[t].op = "update_subscriber"
        /\ txn[t].del # {}
        /\ txn[t].key \in DOMAIN subscriber
        /\ ScopesByTopic(txn[t].key) = {lastScope[txn[t].key]}
        /\ lastScope[txn[t].key] # {}

\* C3: a step of upsert_subscriber or update_subscriber that fails ends the call
\* with an error and leaves the committed subscriber and scope rows as they were,
\* and no statement of an open transaction changes them before its commit.
C3_FailureLeavesCommittedState ==
    [][\A t \in Txns :
          /\ (Ended(t) /\ last'.res # "ok")
                => /\ last'.t = t
                   /\ last'.res \in {"error", "RowNotFound"}
                   /\ UNCHANGED <<subscriber, subscriber_scope>>
          /\ (txn'[t].pc # txn[t].pc /\ ~Ended(t))
                => UNCHANGED <<subscriber, subscriber_scope>>]_vars

\* C3 witness: a transaction on an existing subscriber with scope rows failed at
\* its commit, after its row write, DELETE and INSERT, and the rows are the old ones
C3_Witness ==
    /\ last.res = "error" /\ last.val = "ins"
    /\ last.arg \in DOMAIN subscriber
    /\ ReaderScopes(last.arg) = {lastScope[last.arg]}
    /\ lastScope[last.arg] # {}

\* C4: the stored key fields and topic of a project are those of the first
\* upsert_project for its id, every call returns the stored public keys of that
\* first call, and app_domain is the one of the latest call.
C4_ProjectKeysAreFirstCalls ==
    /\ \A p \in DOMAIN project :
          /\ p \in DOMAIN firstCall
          /\ project[p].topic = firstCall[p].topic
          /\ project[p].authentication_public_key = firstCall[p].apub
          /\ project[p].authentication_private_key = firstCall[p].apriv
          /\ project[p].subscribe_public_key = firstCall[p].spub
          /\ project[p].subscribe_private_key = firstCall[p].spriv
    /\ (last.op = "upsert_project" /\ last.res = "ok")
          => /\ last.val = <<firstCall[last.arg[1]].apub, firstCall[last.arg[1]].spub>>
             /\ project[last.arg[1]].app_domain = last.arg[2]

\* C4 witness: a repeated upsert_project with other keys and another app_domain
\* than the first call has returned public keys that are not the supplied ones
C4_Witness ==
    /\ last.op = "upsert_project" /\ last.res = "ok"
    /\ last.arg[3] # last.val[1] /\ last.arg[4] # last.val[2]
    /\ project[last.arg[1]].app_domain = last.arg[2]
    /\ \E p \in DOMAIN project : p # last.arg[1]

\* C5: right after a successful upsert_subscriber(P, A, S, key, topic), for every
\* S, get_subscriber_by_topic(topic) succeeds and its subscriber has scope S.
C5_UpsertThenReadByTopic ==
    (last.op = "upsert_subscriber" /\ last.res = "ok")
        => /\ get_subscriber_by_topic(subscriber[last.arg].topic) # {}
           /\ \A r \in get_subscriber_by_topic(subscriber[last.arg].topic) :
                 r.scope = lastScope[last.arg]

\* C6: update_subscriber on a (project, account) without subscriber ends at its
\* row statement with an error, not-found unless the store fails, creates no
\* subscriber row and inserts or deletes no scope row.
C6_UpdateOfMissingSubscriberFails ==
    [][\A t \in Txns :
          (/\ txn[t].pc = "begun" /\ txn[t].op = "update_subscriber"
           /\ txn[t].key \notin DOMAIN subscriber
           /\ txn'[t].pc # txn[t].pc)
             => /\ txn'[t].pc = "idle"
                /\ last'.op = "update_subscriber" /\ last'.t = t
                /\ last'.res \in {"RowNotFound", "error"}
                /\ UNCHANGED <<subscriber, subscriber_scope, nextId>>]_vars

\* C6 witness: an update_subscriber has failed with not-found while another
\* subscriber with scope rows exists
C6_Witness ==
    /\ last.op = "update_subscriber" /\ last.res = "RowNotFound"
    /\ last.arg \notin DOMAIN subscriber
    /\ \E k \in DOMAIN subscriber : ScopeRowsOf(subscriber[k].id) # {}

\* the topics callers derive
Topics == {TopicOf(k) : k \in Keys}

\* C7: delete_subscriber succeeds whether or not a row has the id; without such a
\* row it changes nothing; after it no read returns the id; and a deleted
\* (project, account) has a row again only by a committed upsert_subscriber.
C7_DeleteIsIdempotent ==
    [][/\ last'.op = "delete_subscriber"
            => /\ last'.res = "ok"
               /\ \A k \in DOMAIN subscriber' : subscriber'[k].id # last'.arg
               /\ \A tp \in Topics :
                     \A r \in get_subscriber_by_topic(tp)' : r.id # last'.arg
               /\ SubscriberKeysById(last'.arg) = {}
                     => UNCHANGED <<subscriber, subscriber_scope>>
       /\ \A k \in DOMAIN subscriber' :
             k \notin DOMAIN subscriber
                => (last'.op = "upsert_subscriber" /\ last'.res = "ok" /\ last'.arg = k)
      ]_vars

\* C7 witness: delete_subscriber of an id the store generated before and that has
\* no row (any more) has returned Ok, with other subscribers stored
C7_Witness ==
    /\ last.op = "delete_subscriber" /\ last.res = "ok" /\ last.val = 0
    /\ last.arg < nextId
    /\ \A t \in Txns : txn[t].pc = "idle"
    /\ DOMAIN subscriber # {}

\* C8: delete_expired_subscription_watchers at time T deletes exactly the watcher
\* rows with expiry <= T, leaves the rows with expiry > T as they are and returns
\* the number of rows deleted.
C8_SweepDeletesExactlyExpired ==
    [][last'.op = "delete_expired_subscription_watchers"
          => /\ now' = now
             /\ DOMAIN subscription_watcher' =
                   {d \in DOMAIN subscription_watcher :
                       subscription_watcher[d].expiry > now}
             /\ \A d \in DOMAIN subscription_watcher' :
                   subscription_watcher'[d] = subscription_watcher[d]
             /\ last'.res = "ok"
             /\ last'.val = Cardinality(DOMAIN subscription_watcher)
                              - Cardinality(DOMAIN subscription_watcher')]_vars

\* C8 witness: a sweep has deleted one watcher and left another one stored
C8_Witness ==
    /\ last.op = "delete_expired_subscription_watchers" /\ last.val = 1
    /\ \E d \in DOMAIN subscription_watcher : subscription_watcher[d].expiry = now + 1

\* the stored watchers the query is to return for (account, app_domain) at now
ActiveWatchersOf(account, app_domain) ==
    {d \in DOMAIN subscription_watcher :
        /\ subscription_watcher[d].account = account
        /\ subscription_watcher[d].expiry > now
        /\ \/ subscription_watcher[d].project = NULL
           \/ \E p \in DOMAIN project :
                 /\ project[p].id = subscription_watcher[d].project
                 /\ project[p].app_domain = app_domain}

\* C9: get_subscription_watchers_for_account_by_app_or_all_app(account, appDomain)
\* returns exactly the stored watchers of the account with expiry > now whose
\* project is null or a project with app_domain = appDomain.
C9_ActiveWatchersReturned ==
    \A a \in Accounts, dom \in Domains :
        get_subscription_watchers_for_account_by_app_or_all_app(a, dom)
          = {[project |-> subscription_watcher[d].project, did_key |-> d,
              sym_key |-> subscription_watcher[d].sym_key] :
                d \in ActiveWatchersOf(a, dom)}

\* C9 witness: the query returns the watcher of one project of an account and
\* leaves out an unexpired watcher of the same account on a project of another
\* app_domain
C9_Witness ==
    \E a \in Accounts, dom \in Domains, d1 \in DOMAIN subscription_watcher,
       d2 \in DOMAIN subscription_watcher :
        /\ subscription_watcher[d1].project # NULL
        /\ \E r \in get_subscription_watchers_for_account_by_app_or_all_app(a, dom) :
              r.did_key = d1
        /\ subscription_watcher[d2].account = a
        /\ subscription_watcher[d2].expiry > now
        /\ subscription_watcher[d2].project # NULL
        /\ \A r \in get_subscription_watchers_for_account_by_app_or_all_app(a, dom) :
              r.did_key # d2

\* did_key is returned by the query for some account and app_domain
Returned(d) ==
    \E a \in Accounts, dom \in Domains :
        \E r \in get_subscription_watchers_for_account_by_app_or_all_app(a, dom) :
            r.did_key = d

\* C10: a did_key whose watcher is expired (expiry <= now) or not stored is
\* returned after a step only if that step is an upsert_subscription_watcher for
\* it with an expiry later than the time then; neither the clock nor a sweep
\* makes a watcher active again.
C10_NoReturnToActive ==
    [][\A d \in DidKeys :
          (/\ \/ d \notin DOMAIN subscription_watcher
              \/ subscription_watcher[d].expiry <= now
           /\ Returned(d)')
             => /\ last'.op = "upsert_subscription_watcher" /\ last'.res = "ok"
                /\ last'.arg = d
                /\ last'.val > now']_vars

\* C10 witness: the clock has just passed the expiry of a stored watcher, which no
\* query returns, while it was upserted with an expiry in the future
C10_Witness ==
    /\ last.op = "tick"
    /\ \E d \in DOMAIN subscription_watcher :
          /\ subscription_watcher[d].expiry = now
          /\ ~Returned(d)

\* the projects a caller may name in upsert_subscription_watcher, or none
WatcherProjects == {NULL} \cup {ProjectUuid(p) : p \in ProjectIds}

VisibleByTopic(topic) ==
    {[id |-> r.id, project |-> r.project, account |-> r.account,
      sym_key |-> r.sym_key, topic |-> r.topic, scope |-> r.scope] :
        r \in get_subscriber_by_topic(topic)}

\* session t is about to commit an upsert_subscriber whose arguments are those
\* the stored subscriber was last written with: a repeated, identical call
RepeatsUpsert(t) ==
    /\ txn[t].pc = "ins" /\ txn[t].op = "upsert_subscriber"
    /\ txn[t].key \in DOMAIN subscriber
    /\ subscriber[txn[t].key].sym_key = txn[t].sym_key
    /\ subscriber[txn[t].key].topic = txn[t].topic
    /\ lastScope[txn[t].key] = txn[t].scope

\* C12 as stated: a repeated, identical upsert_subscriber returns the same id and
\* leaves the subscriber's row, expiry included, its scope rows and what
\* get_subscriber_by_topic returns as they were after the first call.
C12_RepeatedUpsertKeepsAll ==
    [][\A t \in Txns :
          (RepeatsUpsert(t) /\ Ended(t) /\ last'.res = "ok")
             => /\ last'.val = subscriber[txn[t].key].id
                /\ subscriber'[txn[t].key] = subscriber[txn[t].key]
                /\ subscriber_scope' = subscriber_scope
                /\ \A tp \in Topics :
                      get_subscriber_by_topic(tp)' = get_subscriber_by_topic(tp)]_vars

\* C12 amended: a repeated, identical upsert_subscriber returns the same id and
\* leaves id, sym_key, topic, the scope rows and what get_subscriber_by_topic
\* returns for every topic (the expiry aside) as they were; the expiry becomes the one the
\* repeated call computed when it began, its time + 30 days.
C12_RepeatedUpsertRenewsExpiryOnly ==
    [][\A t \in Txns :
          /\ (RepeatsUpsert(t) /\ Ended(t) /\ last'.res = "ok")
                => /\ last'.val = subscriber[txn[t].key].id
                   /\ subscriber'[txn[t].key] =
                         [subscriber[txn[t].key] EXCEPT !.expiry = txn[t].expiry]
                   /\ \A k \in DOMAIN subscriber' :
                         k # txn[t].key => (k \in DOMAIN subscriber
                                            /\ subscriber'[k] = subscriber[k])
                   /\ subscriber_scope' = subscriber_scope
                   /\ \A tp \in Topics : VisibleByTopic(tp)' = VisibleByTopic(tp)
          /\ (txn[t].pc = "idle" /\ txn'[t].pc = "begun")
                => txn'[t].expiry = now + ExpiryDays]_vars

\* C12 witness: a repeated, identical upsert_subscriber with a non-empty scope
\* set, begun after the clock advanced, has run its statements and is to commit
C12_Witness ==
    \E t \in Txns :
        /\ RepeatsUpsert(t)
        /\ txn[t].scope # {}
        /\ txn[t].expiry > subscriber[txn[t].key].expiry
        /\ VisibleByTopic(txn[t].topic) # {}

\* two sessions working on the subscriber of account 1 as time passes
ExpiryNext == Tick \/ SubscriberNext({1, 2}, {1}, {1})

SpecExpiry == InitRegistered({1}) /\ [][ExpiryNext]_vars

\* session t commits its transaction in this step
Commits(t) == txn[t].pc = "ins" /\ Ended(t) /\ last'.res = "ok"

\* C13: when transactions of upsert_subscriber / update_subscriber on one
\* (project, account) overlap, each commit leaves the subscriber with exactly the
\* expiry and the scope set of the committing transaction, and between commits
\* the committed expiry and scope rows of an existing subscriber do not change: the
\* final state is that of the transaction that committed last, never one's scope
\* with the other's expiry or a union of scope sets.
C13_LastCommitWins ==
    [][/\ \A t \in Txns :
             Commits(t)
                => /\ txn[t].key \in DOMAIN subscriber'
                   /\ subscriber'[txn[t].key].expiry = txn[t].expiry
                   /\ {r.name : r \in {x \in subscriber_scope' :
                                          x.subscriber = subscriber'[txn[t].key].id}}
                         = {UuidToString(u) : u \in txn[t].scope}
       /\ \A k \in (DOMAIN subscriber) \cap (DOMAIN subscriber') :
             (\A t \in Txns : ~(Commits(t) /\ txn[t].key = k))
                => /\ subscriber'[k] = subscriber[k]
                   /\ {x \in subscriber_scope' : x.subscriber = subscriber[k].id}
                         = ScopeRowsOf(subscriber[k].id)]_vars

\* C13 witness: a transaction that began before the clock advanced has run its
\* statements and is to commit a scope set of its own, after a transaction begun
\* later on the same (project, account) has committed another expiry and scope set
C13_Witness ==
    \E t \in Txns :
        /\ txn[t].pc = "ins"
        /\ txn[t].key \in DOMAIN subscriber
        /\ txn[t].expiry < subscriber[txn[t].key].expiry
        /\ txn[t].scope # {} /\ lastScope[txn[t].key] # {}
        /\ txn[t].scope # lastScope[txn[t].key]

\* C14: a call of delete_expired_subscription_watchers that directly follows
\* another one, with no upsert and no advance of the clock between them, deletes
\* nothing and returns 0.
C14_SecondSweepDeletesNothing ==
    [][(last.op = "delete_expired_subscription_watchers"
          /\ delete_expired_subscription_watchers)
          => /\ subscription_watcher' = subscription_watcher
             /\ last'.res = "ok" /\ last'.val = 0]_vars

\* C14 witness: a sweep has returned 0 after the clock advanced, with a watcher
\* stored and none left to delete
C14_Witness ==
    /\ last.op = "delete_expired_subscription_watchers" /\ last.val = 0
    /\ now > 0
    /\ DOMAIN subscription_watcher # {}
    /\ \A d \in DOMAIN subscription_watcher : subscription_watcher[d].expiry > now

\* one session renewing and re-keying the subscribers of two accounts
SpecRekey == InitRegistered({1}) /\ [][SubscriberNext({1}, {1, 2}, Keys)]_vars

\* the committed scope rows of the subscribers other than the one with this id
ScopeRowsOfOthers(id) == {r \in subscriber_scope : r.subscriber # id}

\* C15: a successful update_subscriber(P, A, S) leaves id, sym_key and topic of
\* the subscriber (P, A) as they were and sets its expiry, and leaves the row and
\* the scope rows of every other subscriber unchanged; a successful re-upsert
\* with upsert_subscriber keeps the id and sets sym_key and topic to the supplied
\* values, hex-encoded key and topic.
C15_UpdateKeepsKeyAndTopic ==
    [][\A t \in Txns :
          Commits(t)
             => /\ txn[t].key \in DOMAIN subscriber'
                /\ \A k \in DOMAIN subscriber' :
                      k # txn[t].key
                         => (k \in DOMAIN subscriber /\ subscriber'[k] = subscriber[k])
                /\ {r \in subscriber_scope' : r.subscriber # txn[t].id}
                      = ScopeRowsOfOthers(txn[t].id)
                /\ txn[t].op = "update_subscriber"
                      => /\ txn[t].key \in DOMAIN subscriber
                         /\ subscriber'[txn[t].key].id = subscriber[txn[t].key].id
                         /\ subscriber'[txn[t].key].sym_key = subscriber[txn[t].key].sym_key
                         /\ subscriber'[txn[t].key].topic = subscriber[txn[t].key].topic
                         /\ subscriber'[txn[t].key].expiry = txn[t].expiry
                /\ (txn[t].op = "upsert_subscriber" /\ txn[t].key \in DOMAIN subscriber)
                      => /\ subscriber'[txn[t].key].id = subscriber[txn[t].key].id
                         /\ subscriber'[txn[t].key].sym_key = txn[t].sym_key
                         /\ subscriber'[txn[t].key].topic = txn[t].topic
                         /\ txn[t].sym_key \in {HexEncode(k) : k \in Keys}
                         /\ txn[t].topic \in Topics]_vars

\* C15 witness: an update_subscriber has committed a new scope set on a subscriber
\* that keeps its key and topic, while a subscriber of another account with
\* another key, another topic and scope rows is stored
C15_Witness ==
    /\ last.op = "update_subscriber" /\ last.res = "ok"
    /\ last.arg \in DOMAIN subscriber
    /\ subscriber[last.arg].sym_key \in {HexEncode(k) : k \in Keys}
    /\ \E k \in DOMAIN subscriber :
          /\ k # last.arg
          /\ subscriber[k].sym_key # subscriber[last.arg].sym_key
          /\ subscriber[k].topic # subscriber[last.arg].topic
          /\ ScopeRowsOf(subscriber[k].id) # {}
          /\ lastScope[k] # lastScope[last.arg]

\* C16: no two project rows share a project id (the external id or the generated
\* one) or an app_domain; an upsert_project whose app_domain is held by a row of
\* another external id, whether it would insert or update, fails with a
\* unique-constraint violation and leaves every project row unchanged, and any
\* other upsert_project succeeds.
C16_AppDomainStaysUnique ==
    [][/\ \A p \in DOMAIN project', q \in DOMAIN project' :
             p # q => /\ project'[p].app_domain # project'[q].app_domain
                      /\ project'[p].id # project'[q].id
       /\ \A p \in ProjectIds, d \in Domains, k \in Keys :
             (/\ last'.op = "upsert_project"
              /\ last'.arg[1] = p /\ last'.arg[2] = d
              /\ upsert_project(p, d, TopicOf(k), k, k))
                => IF \E q \in DOMAIN project : q # p /\ project[q].app_domain = d
                   THEN last'.res = "UniqueViolation" /\ project' = project
                   ELSE /\ last'.res = "ok"
                        /\ p \in DOMAIN project' /\ project'[p].app_domain = d]_vars

\* C16 witness: an upsert_project of a stored project, asking for the app_domain
\* of another stored project, has failed and the row keeps its app_domain
C16_Witness ==
    /\ last.op = "upsert_project" /\ last.res = "UniqueViolation"
    /\ last.arg[1] \in DOMAIN project
    /\ project[last.arg[1]].app_domain # last.arg[2]
    /\ \E q \in DOMAIN project : q # last.arg[1] /\ project[q].app_domain = last.arg[2]

\* the committed scope rows of id change in this step
ScopeRowsChange(id) ==
    {r \in subscriber_scope' : r.subscriber = id} # ScopeRowsOf(id)

\* C17: every committed scope row belongs to a stored subscriber; the scope rows
\* of a subscriber change only when an upsert_subscriber or update_subscriber on
\* that subscriber commits or delete_subscriber deletes it; and after
\* delete_subscriber(id) no scope row of id is left.
C17_NoOrphanScopeRows ==
    [][/\ \A r \in subscriber_scope' :
             \E k \in DOMAIN subscriber' : subscriber'[k].id = r.subscriber
       /\ \A id \in 1..(MaxIds + 1) :
             ScopeRowsChange(id)
                => \/ \E t \in Txns : Commits(t) /\ txn[t].id = id
                   \/ /\ last'.op = "delete_subscriber" /\ last'.arg = id
                      /\ SubscriberKeysById(id) # {}
       /\ last'.op = "delete_subscriber"
             => {r \in subscriber_scope' : r.subscriber = last'.arg} = {}]_vars

\* C17 witness: delete_subscriber has deleted one of two subscribers and no scope
\* row has its id, while the other subscriber keeps its scope rows
C17_Witness ==
    /\ last.op = "delete_subscriber" /\ last.val = 1
    /\ nextId > MaxIds
    /\ ScopeRowsOf(last.arg) = {}
    /\ \E k \in DOMAIN subscriber : ScopeRowsOf(subscriber[k].id) # {}

(* ---------------------------- scope decoding --------------------------- *)
\* the strings a scope column may hold: uuids in either form, and others
ScopeStrings ==
    {UuidToString(u) : u \in ScopeUuids} \cup {UuidToSimpleString(u) : u \in ScopeUuids}
        \cup {Malformed(n) : n \in 1..NumJunk}

\* the arrays array_agg may hand to the conversion
ScopeArrays == UNION {[1..n -> ScopeStrings] : n \in 0..MaxLen}

\* a stored subscriber and one row of the scope-joined read, its scope column
\* being any array of strings, about to be converted
InitDecode ==
    /\ now = 0
    /\ project = <<>>
    /\ subscriber = (<<ProjectUuid(1), 1>> :>
                        [id |-> 1, sym_key |-> HexEncode(1), topic |-> TopicOf(1),
                         expiry |-> NewExpiry])
    /\ subscriber_scope = {}
    /\ subscription_watcher = <<>>
    /\ txn = [t \in Txns |-> IdleTxn]
    /\ nextId = 2
    /\ \E scopes \in ScopeArrays :
          last = Done("SubscriberWithScopeResult", 0, scopes, "ok", NULL)
    /\ lastScope = <<>>
    /\ firstCall = <<>>

\* From<SubscriberWithScopeResult> for SubscriberWithScope applied to the row
from_SubscriberWithScopeResult ==
    /\ last.op = "SubscriberWithScopeResult"
    /\ last' = Done("SubscriberWithScope", 0, last.arg, "ok",
                    SubscriberWithScope(<<ProjectUuid(1), 1>>, last.arg))
    /\ UNCHANGED <<now, project, subscriber, subscriber_scope, subscription_watcher,
                   txn, nextId, lastScope, firstCall>>

SpecDecode == InitDecode /\ [][from_SubscriberWithScopeResult]_vars

\* C18: for every array of scope strings the conversion of the read succeeds and
\* its scope is the set of the uuids some entry of the array is a text form of:
\* entries that are no uuid are left out, repeated uuids appear once, and the
\* order of the entries does not matter.
C18_DecodeKeepsExactlyValidScopes ==
    last.op = "SubscriberWithScope"
       => /\ last.res = "ok"
          /\ last.val.scope =
                {u \in ScopeUuids :
                    \E i \in DOMAIN last.arg :
                        last.arg[i] = UuidToString(u) \/ last.arg[i] = UuidToSimpleString(u)}
          /\ \A i \in DOMAIN last.arg :
                (\E n \in 1..NumJunk : last.arg[i] = Malformed(n))
                   => \A u \in last.val.scope :
                         \E j \in DOMAIN last.arg \ {i} :
                             last.arg[j] \in {UuidToString(u), UuidToSimpleString(u)}
          /\ last.val.id = subscriber[<<ProjectUuid(1), 1>>].id

\* C18 witness: an array that starts with a malformed string and holds one uuid
\* twice, in two forms, has been decoded to the set of that uuid alone
C18_Witness ==
    /\ last.op = "SubscriberWithScope"
    /\ Len(last.arg) = MaxLen
    /\ \E n \in 1..NumJunk : last.arg[1] = Malformed(n)
    /\ \E u \in ScopeUuids :
          /\ last.arg[2] = UuidToSimpleString(u)
          /\ last.arg[MaxLen] = UuidToString(u)
          /\ last.val.scope = {u}

\* watchers of every account, global or on the registered project, upserted,
\* expiring as the clock runs, swept
WatcherSweepNext ==
    \/ Tick
    \/ \E a \in Accounts, d \in DidKeys, e \in 1..(MaxTime + 1),
          proj \in {NULL, ProjectUuid(1)} :
            upsert_subscription_watcher(a, proj, d, HexEncode(1), e)
    \/ delete_expired_subscription_watchers

SpecWatcherSweep == InitRegistered({1}) /\ [][WatcherSweepNext]_vars

\* C19: at every time the stored watchers are split in those the query returns
\* (for their account and app_domain) and those a sweep at that time deletes: a
\* call of delete_expired_subscription_watchers deletes exactly the stored
\* watchers that no query at the same time returns, and none a query returns.
C19_SweepAndQueryPartition ==
    [][delete_expired_subscription_watchers
          => \A d \in DOMAIN subscription_watcher :
                (d \notin DOMAIN subscription_watcher') <=> ~Returned(d)]_vars

\* C19 witness: a sweep has deleted a watcher and left one of the registered
\* project stored, which the query returns
C19_Witness ==
    /\ last.op = "delete_expired_subscription_watchers" /\ last.val > 0
    /\ \E d \in DOMAIN subscription_watcher :
          /\ subscription_watcher[d].project # NULL
          /\ subscription_watcher[d].expiry = now + 1
          /\ Returned(d)

\* C20 as stated: with a non-decreasing clock the committed expiry of a
\* subscriber never decreases, whatever the sequence or interleaving of
\* successful upsert_subscriber and update_subscriber calls on it.
C20_ExpiryNeverDecreases ==
    [][/\ now' >= now
       /\ \A k \in (DOMAIN subscriber) \cap (DOMAIN subscriber') :
             subscriber'[k].id = subscriber[k].id
                => subscriber'[k].expiry >= subscriber[k].expiry]_vars

\* C20 amended: with a non-decreasing clock, a call computes its expiry as the
\* time it begins + 30 days and its commit stores that expiry; the committed
\* expiry of a subscriber does not decrease at the commit of a call during which
\* no call on the subscriber begun at another time committed, and nothing but a
\* commit changes it.
C20_ExpiryNeverDecreasesWithoutOverlap ==
    [][/\ now' >= now
       /\ \A t \in Txns :
             /\ (txn[t].pc = "idle" /\ txn'[t].pc = "begun")
                   => txn'[t].expiry = now + ExpiryDays
             /\ Commits(t)
                   => /\ subscriber'[txn[t].key].expiry = txn[t].expiry
                      /\ (txn[t].key \in DOMAIN subscriber /\ ~txn[t].raced)
                            => subscriber'[txn[t].key].expiry
                                  >= subscriber[txn[t].key].expiry
       /\ \A k \in (DOMAIN subscriber) \cap (DOMAIN subscriber') :
             (\A t \in Txns : ~(Commits(t) /\ txn[t].key = k))
                => subscriber'[k].expiry = subscriber[k].expiry]_vars

\* C20 witness: a call is to renew, after the clock advanced and with no other
\* call committing meanwhile, a subscriber stored with an earlier expiry, while
\* another call on the subscriber has begun
C20_Witness ==
    \E t \in Txns :
        /\ txn[t].pc = "ins" /\ ~txn[t].raced
        /\ txn[t].key \in DOMAIN subscriber
        /\ txn[t].expiry > subscriber[txn[t].key].expiry
        /\ txn[t].expiry = now + ExpiryDays
        /\ \E u \in Txns \ {t} : txn[u].pc = "begun" /\ txn[u].key = txn[t].key

\* the stored scope set of the subscriber of key, read from its committed rows
StoredScope(key) ==
    {u \in ScopeUuids :
        \E r \in ScopeRowsOf(subscriber[key].id) : r.name = UuidToString(u)}

\* C21: in every reachable state and for every project the scope-joined read
\* returns the accounts the plain read returns, each stored subscriber of the
\* project appearing in it once with its stored scope set.
C21_JoinedReadCoversAllAccounts ==
    \A p \in ProjectIds :
        /\ {r.account : r \in get_subscriber_accounts_and_scopes_by_project_id(p)}
              = get_subscriber_accounts_by_project_id(p)
        /\ \A k \in SubscriberKeysOfProject(p) :
              \E r \in get_subscriber_accounts_and_scopes_by_project_id(p) :
                  r.account = k[2] /\ r.scope = StoredScope(k)

====
